---- MODULE Spec2Model ----
(***************************************************************************)
(* Model of the Waku test framework (src/src/lib.rs): the node launcher,   *)
(* the bounded-retry info resolver, the list operations of the REST        *)
(* gateway and the peer convergence poll loop.  A caller invokes one       *)
(* operation of WakuTestFramework at a time; every await point of an       *)
(* operation is an action, and the container runtime and the node's REST   *)
(* endpoint answer nondeterministically.                                   *)
(***************************************************************************)
EXTENDS Integers, Sequences, FiniteSets, TLC

VARIABLES
    op,           \* operation of WakuTestFramework in progress, "idle" if none
    pc,           \* position inside the operation in progress
    containers,   \* container runtime: state of the container of each name
    handles,      \* WakuNode values the caller got back from start_waku_node
    config,       \* WakuNodeConfig argument of start_waku_node
    node,         \* WakuNode the operation in progress works on
    attempt,      \* loop variable of get_node_info (1..=5)
    requests,     \* GET requests issued by the running get_node_info call
    fails,        \* of those, answered by a transport failure or non-success status
    lastResp,     \* last HTTP response the operation in progress received
    result,       \* value returned by the operation in progress, once pc = "done"
    timeout_secs, \* argument of wait_for_peer_connection
    elapsed,      \* start.elapsed().as_secs() of the running wait_for_peer_connection
    pollTime,     \* seconds the peer query in flight has taken so far
    sleepLeft,    \* seconds left of the sleep in progress
    connSince,    \* elapsed when the peer endpoint began to report a connected
                  \* peer for good, -1 while it has not
    polls,        \* peer queries issued by the running wait_for_peer_connection
    sleeps,       \* sleeps begun by the running wait_for_peer_connection
    sawConnected, \* some answer to those queries listed a connected peer
    script,       \* how far the answers follow ScriptedPolls, -1 once they differ
    networks,     \* container runtime: names of the networks that exist
    trace,        \* requests and sleeps of the operation in progress, in order
    warns,        \* warn! records written by the operation in progress
    relay,        \* each node's relay: the topics it is subscribed to and the
                  \* messages it holds for the next listing
    arg,          \* topic or message argument of the operation in progress
    answer,       \* the node's answer to the request in flight, where the
                  \* node is modelled
    todo,         \* containers listed by cleanup_existing_containers and
                  \* not yet visited by its loop
    scenario      \* the scripted scenario, where one runs: the call it makes
                  \* next, the handles it was given and the cleanup_node
                  \* calls it has made

callVars == <<config, node, attempt, requests, fails, lastResp>>

waitVars == <<timeout_secs, elapsed, pollTime, sleepLeft, connSince, polls,
              sleeps, sawConnected, script>>

\* State of the specifications that drive the operations from a scenario.
restVars == <<relay, arg, answer, todo, scenario>>

\* What the launcher, the resolver and the gateway leave alone but for their
\* own entries in trace and warns.
auxVars == <<networks, trace, warns, restVars>>

vars == <<op, pc, containers, handles, result, callVars, waitVars, auxVars>>

-----------------------------------------------------------------------------
(* Option<String> *)

None == [some |-> FALSE, v |-> ""]

Some(s) == [some |-> TRUE, v |-> s]

-----------------------------------------------------------------------------
(* Configurations and handles *)

DefaultConfig ==
    [name |-> "waku-node", rest_port |-> 22161, tcp_port |-> 22162,
     websocket_port |-> 22163, discv5_port |-> 22164,
     external_ip |-> "172.18.111.226", bootstrap_node |-> None]

Config1 ==
    [name |-> "waku-node-1", rest_port |-> 23161, tcp_port |-> 23162,
     websocket_port |-> 23163, discv5_port |-> 23164,
     external_ip |-> "172.18.111.226", bootstrap_node |-> None]

Configs == {DefaultConfig, Config1}

Names == {c.name : c \in Configs}

NoConfig ==
    [name |-> "", rest_port |-> 0, tcp_port |-> 0, websocket_port |-> 0,
     discv5_port |-> 0, external_ip |-> "", bootstrap_node |-> None]

\* The container runtime names a container's id after the container here.
ContainerId(name) == name

WakuNode(id, cfg) ==
    [container_id |-> id, name |-> cfg.name, rest_port |-> cfg.rest_port,
     tcp_port |-> cfg.tcp_port, websocket_port |-> cfg.websocket_port,
     discv5_port |-> cfg.discv5_port, external_ip |-> cfg.external_ip,
     enr_uri |-> None]

NoNode == WakuNode("", NoConfig)

-----------------------------------------------------------------------------
(* The info endpoint: address records and response bodies *)

EnrUris == {"", "enr:-a", "enr:-b"}

AddrLists == {<< >>, <<"/ip4/172.18.111.226/tcp/22162">>}

NodeInfo == [enr_uri : EnrUris, listen_addresses : AddrLists]

NoInfo == [enr_uri |-> "", listen_addresses |-> << >>]

\* What a JSON text offers the two decoders: the NodeInfo its top-level
\* enrUri/listenAddresses fields form, and the NodeInfo its "data" field
\* forms; present = FALSE where the fields are missing or ill-typed.
Absent == [present |-> FALSE, rec |-> NoInfo]

Present(r) == [present |-> TRUE, rec |-> r]

Shapes == {Absent} \cup {Present(r) : r \in NodeInfo}

InfoBodies == [top : Shapes, data : Shapes]

\* A text neither decoder accepts (not JSON, or JSON of another shape).
Garbage == [top |-> Absent, data |-> Absent]

BareBody(r) == [top |-> Present(r), data |-> Absent]

WrappedBody(r) == [top |-> Absent, data |-> Present(r)]

(* HTTP responses: send() failed; a non-success status; a success status    *)
(* whose body could not be read; a success status with its body.  seen is   *)
(* FALSE only in NoResp, the value of lastResp before any response.         *)
Resp(send_ok, success, text_ok, body) ==
    [send_ok |-> send_ok, success |-> success, text_ok |-> text_ok,
     body |-> body, seen |-> TRUE]

Responses(bodies, nobody) ==
    {Resp(FALSE, FALSE, FALSE, nobody), Resp(TRUE, FALSE, FALSE, nobody),
     Resp(TRUE, TRUE, FALSE, nobody)}
        \cup {Resp(TRUE, TRUE, TRUE, b) : b \in bodies}

NoResp == [Resp(FALSE, FALSE, FALSE, Garbage) EXCEPT !.seen = FALSE]

\* No scripted scenario is running.
NoScenario == [step |-> "none", launched |-> 0, cleaned |-> 0]

\* No answer prepared by the node; handed lists the messages, as they were
\* published, that an answer to get_messages hands out.
NoAnswer == [resp |-> NoResp, handed |-> << >>]

Answer(resp) == [resp |-> resp, handed |-> << >>]

TransportFailure(r) == r.seen /\ ~r.send_ok

StatusFailure(r) == r.seen /\ r.send_ok /\ ~r.success

InfoResponses == Responses(InfoBodies, Garbage)

-----------------------------------------------------------------------------
(* Messages.  A text is the sequence of its bytes; a base64 text is the      *)
(* sequence of its digits, 0..63 for A-Z a-z 0-9 + /, and Pad for '='.       *)

MaxContentLen == 3

\* 'M' and '?': a '?' that ends a group of three gives the digit /.
ContentBytes == {77, 63}

Pad == 64

RECURSIVE encode(_)

\* general_purpose::STANDARD.encode
encode(b) ==
    IF Len(b) = 0 THEN << >>
    ELSE IF Len(b) = 1
         THEN <<b[1] \div 4, (b[1] % 4) * 16, Pad, Pad>>
    ELSE IF Len(b) = 2
         THEN <<b[1] \div 4, (b[1] % 4) * 16 + b[2] \div 16, (b[2] % 16) * 4, Pad>>
    ELSE <<b[1] \div 4, (b[1] % 4) * 16 + b[2] \div 16,
           (b[2] % 16) * 4 + b[3] \div 64, b[3] % 64>>
             \o encode(SubSeq(b, 4, Len(b)))

RECURSIVE decode(_)

\* general_purpose::STANDARD.decode: groups of four digits, padding only in
\* the last group and canonical; ok = FALSE is a DecodeError.
decode(d) ==
    IF Len(d) = 0 THEN [ok |-> TRUE, bytes |-> << >>]
    ELSE IF Len(d) < 4 \/ d[1] = Pad \/ d[2] = Pad
         THEN [ok |-> FALSE, bytes |-> << >>]
    ELSE IF d[3] = Pad
         THEN [ok |-> Len(d) = 4 /\ d[4] = Pad /\ d[2] % 16 = 0,
               bytes |-> <<d[1] * 4 + d[2] \div 16>>]
    ELSE IF d[4] = Pad
         THEN [ok |-> Len(d) = 4 /\ d[3] % 4 = 0,
               bytes |-> <<d[1] * 4 + d[2] \div 16,
                           (d[2] % 16) * 16 + d[3] \div 4>>]
    ELSE LET rest == decode(SubSeq(d, 5, Len(d)))
         IN  [ok |-> rest.ok,
              bytes |-> <<d[1] * 4 + d[2] \div 16,
                          (d[2] % 16) * 16 + d[3] \div 4,
                          (d[3] % 4) * 64 + d[4]>> \o rest.bytes]

TestTopic == "/my-app/2/chatroom-1/proto"

Topics == {TestTopic, "/a/1/b/proto"}

\* The characters of a topic.
TopicText(t) ==
    IF t = TestTopic
    THEN <<"/", "m", "y", "-", "a", "p", "p", "/", "2", "/", "c", "h", "a", "t",
           "r", "o", "o", "m", "-", "1", "/", "p", "r", "o", "t", "o">>
    ELSE <<"/", "a", "/", "1", "/", "b", "/", "p", "r", "o", "t", "o">>

RECURSIVE urlencode(_)

\* urlencoding::encode: letters, digits and - _ . ~ stay, every other byte is
\* written as % and two hex digits; of the characters above only / is escaped.
urlencode(text) ==
    IF Len(text) = 0 THEN << >>
    ELSE (IF Head(text) = "/" THEN <<"%", "2", "F">> ELSE <<Head(text)>>)
             \o urlencode(Tail(text))

RECURSIVE urldecode(_)

\* The node reading the path segment back.
urldecode(path) ==
    IF Len(path) = 0 THEN << >>
    ELSE IF Head(path) = "%" /\ Len(path) >= 3
         THEN (IF SubSeq(path, 2, 3) = <<"2", "F">> THEN <<"/">> ELSE <<"?">>)
                  \o urldecode(SubSeq(path, 4, Len(path)))
         ELSE <<Head(path)>> \o urldecode(Tail(path))

\* SystemTime::now(), seconds since the epoch.
Timestamps == {1700000000}

Contents == UNION {[1..k -> ContentBytes] : k \in 0..MaxContentLen}

\* create_test_message that sends the content as it is.
create_test_message_raw(content, topic, now) ==
    [payload |-> content, content_topic |-> topic, timestamp |-> now]

\* create_test_message(content, topic) at time now.
create_test_message(content, topic, now) ==
    [payload |-> encode(content), content_topic |-> topic, timestamp |-> now]

Message ==
    {create_test_message(c, t, ts) : c \in Contents, t \in Topics, ts \in Timestamps}

NoMessage == [payload |-> << >>, content_topic |-> "", timestamp |-> 0]

\* The JSON document json(message) sends: Serialize for Message.
serialize(m) ==
    [payload |-> m.payload, contentTopic |-> m.content_topic,
     timestamp |-> m.timestamp]

\* Deserialize for ReceivedMessage, on a document of a JSON array.
deserialize(doc) ==
    [payload |-> doc.payload, content_topic |-> doc.contentTopic,
     timestamp |-> doc.timestamp]

NoArg == [topic |-> "", message |-> NoMessage]

(* POST requests are answered by a status line only. *)
StatusCodes == {200, 204, 404, 503}

\* is_success that accepts 200 alone.
is_success_200_only(status) == status = 100 + 100

\* StatusCode::is_success
is_success(status) == status >= 200 /\ status <= 299

PostResp(send_ok, status) ==
    Resp(send_ok, send_ok /\ is_success(status), FALSE, [status |-> status])

PostResponses == {PostResp(FALSE, 0)} \cup {PostResp(TRUE, c) : c \in StatusCodes}

-----------------------------------------------------------------------------
(* The list endpoints: peers and received messages *)

MaxPeers == 2

MaxMessages == 1

SeqsUpTo(S, n) == UNION {[1..k -> S] : k \in 0..n}

PeerIds == {"16Uiu2HAm-A", "16Uiu2HAm-B"}

PeerInfo == [peer_id : PeerIds, multiaddr : {"/ip4/172.18.111.227/tcp/23172"},
             connected : BOOLEAN]

\* Payloads a node may list: the base64 text of "M", and "TQ" without padding.
ReceivedMessage == [payload : {encode(<<77>>), <<19, 16>>},
                    content_topic : {TestTopic}, timestamp : Timestamps]

\* What a body offers the Vec<T> decoder of response.json(): parses = FALSE
\* where the text is no JSON array of T.
NoList == [parses |-> FALSE, items |-> << >>]

ListBodies(lists) == {NoList} \cup {[parses |-> TRUE, items |-> l] : l \in lists}

\* The peer lists a node reports: each peer at most once.
PeerLists ==
    {l \in SeqsUpTo(PeerInfo, MaxPeers) :
        \A i, j \in 1..Len(l) : i # j => l[i].peer_id # l[j].peer_id}

PeerResponses == Responses(ListBodies(PeerLists), NoList)

MessageResponses ==
    Responses(ListBodies(SeqsUpTo(ReceivedMessage, MaxMessages)), NoList)

\* The answer lists at least one peer with connected = true.
ReportsConnected(r) ==
    /\ r.seen /\ r.send_ok /\ r.success /\ r.text_ok /\ r.body.parses
    /\ \E i \in 1..Len(r.body.items) : r.body.items[i].connected

\* The poll answers of the convergence test: an empty list, one unconnected
\* peer, one connected peer.
ScriptedPolls ==
    LET peer(c) == [peer_id |-> "16Uiu2HAm-A",
                    multiaddr |-> "/ip4/172.18.111.227/tcp/23172", connected |-> c]
        list(l) == Resp(TRUE, TRUE, TRUE, [parses |-> TRUE, items |-> l])
    IN  <<list(<< >>), list(<<peer(FALSE)>>), list(<<peer(TRUE)>>)>>

-----------------------------------------------------------------------------
(* Results: anyhow::Result<T> with the payload of each operation *)

NoResult == [status |-> "none", err |-> "", info |-> NoInfo, node |-> NoNode,
             flag |-> FALSE, list |-> << >>, code |-> 0]

Ok == [NoResult EXCEPT !.status = "ok"]

Err(msg) == [NoResult EXCEPT !.status = "err", !.err = msg]

OkInfo(r) == [Ok EXCEPT !.info = r]

OkNode(n) == [Ok EXCEPT !.node = n]

OkBool(b) == [Ok EXCEPT !.flag = b]

OkList(l) == [Ok EXCEPT !.list = l]

\* anyhow!("... failed with status: {}", response.status())
ErrStatus(msg, status) == [Err(msg) EXCEPT !.code = status]

\* serde_json::from_str::<NodeInfo>(&text)
from_str_NodeInfo(body) == body.top

\* serde_json::from_str::<ApiResponse<NodeInfo>>(&text), .data
from_str_ApiResponse(body) == body.data

\* parse_node_info trying the {data: record} envelope before the bare record.
parse_node_info_envelope_first(body) ==
    IF body.data.present
    THEN OkInfo(body.data.rec)
    ELSE IF body.top.present
         THEN OkInfo(body.top.rec)
         ELSE Err("Failed to parse node info response")

\* The two decoders in the order get_node_info tries them.
parse_node_info(body) ==
    IF from_str_NodeInfo(body).present
    THEN OkInfo(from_str_NodeInfo(body).rec)
    ELSE IF from_str_ApiResponse(body).present
         THEN OkInfo(from_str_ApiResponse(body).rec)
         ELSE Err("Failed to parse node info response")

\* A loop over 1..5 instead of 1..=5.
MaxAttempts_exclusive == 5 - 1

MaxAttempts == 5

\* info_response treating an unparsable body like a failed request.
info_response_retry_unparsable(resp) ==
    IF resp.send_ok /\ resp.success /\ resp.text_ok
       /\ parse_node_info(resp.body).status = "ok"
    THEN parse_node_info(resp.body)
    ELSE IF resp.send_ok /\ resp.success /\ ~resp.text_ok
         THEN Err("Failed to get response text")
         ELSE [NoResult EXCEPT !.status = "retry"]

\* What get_node_info does with the answer to one GET: "retry" or the value
\* it returns at once.
info_response(resp) ==
    IF resp.send_ok /\ resp.success
    THEN IF resp.text_ok
         THEN parse_node_info(resp.body)
         ELSE Err("Failed to get response text")
    ELSE [NoResult EXCEPT !.status = "retry"]

\* get_peers, from the answer to its GET.
get_peers_result(resp) ==
    IF ~resp.send_ok
    THEN Err("Failed to get peers")
    ELSE IF resp.success
         THEN IF resp.text_ok /\ resp.body.parses
              THEN OkList(resp.body.items)
              ELSE Err("Failed to parse peers response")
         ELSE OkList(<< >>)

\* get_messages failing on a non-success status, as publish_message does.
get_messages_result_status_error(resp) ==
    IF ~resp.send_ok
    THEN Err("Failed to get messages")
    ELSE IF resp.success
         THEN IF resp.text_ok /\ resp.body.parses
              THEN OkList(resp.body.items)
              ELSE Err("Failed to parse messages response")
         ELSE Err("Failed to get messages with status")

\* get_messages, from the answer to its GET.
get_messages_result(resp) ==
    IF ~resp.send_ok
    THEN Err("Failed to get messages")
    ELSE IF resp.success
         THEN IF resp.text_ok /\ resp.body.parses
              THEN OkList(resp.body.items)
              ELSE Err("Failed to parse messages response")
         ELSE OkList(<< >>)

\* subscribe_to_topic, from the answer to its POST.
subscribe_result(resp) ==
    IF ~resp.send_ok
    THEN Err("Failed to send subscription request")
    ELSE IF is_success(resp.body.status)
         THEN Ok
         ELSE ErrStatus("Subscription failed with status", resp.body.status)

\* publish_message, from the answer to its POST.
publish_result(resp) ==
    IF ~resp.send_ok
    THEN Err("Failed to send publish request")
    ELSE IF is_success(resp.body.status)
         THEN Ok
         ELSE ErrStatus("Message publication failed with status", resp.body.status)

\* peer_connected with iter().all in place of iter().any.
peer_connected_all(r) ==
    /\ r.status = "ok"
    /\ r.list # << >>
    /\ \A i \in 1..Len(r.list) : r.list[i].connected

\* The test of line 302-303 on the value get_peers returned.
peer_connected(r) ==
    /\ r.status = "ok"
    /\ r.list # << >>
    /\ \E i \in 1..Len(r.list) : r.list[i].connected

\* poll_verdict with get_peers(node).await? in place of if let Ok(peers).
poll_verdict_propagate(r) ==
    IF r.status = "err"
    THEN r
    ELSE IF peer_connected(r)
         THEN OkBool(TRUE)
         ELSE [NoResult EXCEPT !.status = "sleep"]

\* What the loop body does with the value get_peers returned: Ok(true) is
\* returned, or the loop sleeps and goes round again.
poll_verdict(r) ==
    IF peer_connected(r)
    THEN OkBool(TRUE)
    ELSE [NoResult EXCEPT !.status = "sleep"]

\* A sleep of 6 seconds.
PollInterval_long == 5 + 1

\* sleep(Duration::from_secs(5)) of the poll loop.
PollInterval == 5

MaxTimeout == 11

MaxPollTime == 2

Timeouts == 0..MaxTimeout

\* A node's relay before any subscription.
NoRelay == [subscribed |-> {}, cache |-> << >>]

\* An entry of trace: a request to the runtime or to the node and whether it
\* succeeded, or a sleep.
Req(what, ok) == [req |-> what, ok |-> ok]

-----------------------------------------------------------------------------
NoWait ==
    /\ timeout_secs = 0
    /\ elapsed = 0
    /\ pollTime = 0
    /\ sleepLeft = 0
    /\ connSince = -1
    /\ polls = 0
    /\ sleeps = 0
    /\ sawConnected = FALSE
    /\ script = 0

Init ==
    /\ op = "idle"
    /\ pc = "idle"
    /\ containers = [n \in Names |-> "absent"]
    /\ handles = {}
    /\ config = NoConfig
    /\ node = NoNode
    /\ attempt = 0
    /\ requests = 0
    /\ fails = 0
    /\ lastResp = NoResp
    /\ result = NoResult
    /\ NoWait
    /\ networks = 0
    /\ trace = << >>
    /\ warns = 0
    /\ relay = [n \in Names |-> NoRelay]
    /\ arg = NoArg
    /\ answer = NoAnswer
    /\ todo = << >>
    /\ scenario = NoScenario

-----------------------------------------------------------------------------
(* get_node_info, standalone or called by start_waku_node (line 157) *)

call_get_node_info(h) ==
    /\ op = "idle"
    /\ op' = "get_node_info"
    /\ pc' = "info_send"
    /\ node' = h
    /\ attempt' = 1
    /\ requests' = 0
    /\ fails' = 0
    /\ UNCHANGED <<containers, handles, config, lastResp, result, waitVars>>
    /\ UNCHANGED auxVars

\* info_return with line 157 keeping the handle when get_node_info failed
\* (.ok().map(..) in place of ?).
info_return_keep_handle(r) ==
    IF op = "start_waku_node"
    THEN LET n == [node EXCEPT !.enr_uri = IF r.status = "ok"
                                           THEN Some(r.info.enr_uri)
                                           ELSE None]
         IN  /\ node' = n
             /\ handles' = handles \cup {n}
             /\ result' = OkNode(n)
    ELSE /\ result' = r
         /\ UNCHANGED <<node, handles>>

\* get_node_info returns r to its caller: the scenario, or line 157 of
\* start_waku_node, which stores the record's enr_uri or propagates the error.
info_return(r) ==
    IF op = "start_waku_node"
    THEN IF r.status = "ok"
         THEN LET n == [node EXCEPT !.enr_uri = Some(r.info.enr_uri)]
              IN  /\ node' = n
                  /\ handles' = handles \cup {n}
                  /\ result' = OkNode(n)
         ELSE /\ result' = r
              /\ UNCHANGED <<node, handles>>
    ELSE /\ result' = r
         /\ UNCHANGED <<node, handles>>

\* One iteration of the loop: the GET is sent and answered by resp.
info_attempt(resp) ==
    /\ op \in {"get_node_info", "start_waku_node"}
    /\ pc = "info_send"
    /\ requests' = requests + 1
    /\ lastResp' = resp
    /\ IF info_response(resp).status # "retry"
       THEN /\ pc' = "done"
            /\ info_return(info_response(resp))
            /\ UNCHANGED fails
       ELSE /\ fails' = fails + 1
            /\ IF attempt < MaxAttempts
               THEN /\ pc' = "info_sleep"
                    /\ UNCHANGED <<result, node, handles>>
               ELSE /\ pc' = "done"
                    /\ info_return(Err("Failed to get node info after 5 attempts"))
    /\ UNCHANGED <<op, containers, config, attempt, waitVars>>
    /\ trace' = Append(trace, Req("get_info", resp.send_ok /\ resp.success))
    /\ warns' = warns + (IF info_response(resp).status \in {"retry"}
                            \/ info_response(resp) = Err("Failed to parse node info response")
                         THEN 1 ELSE 0)
    /\ UNCHANGED <<networks, restVars>>

\* sleep(Duration::from_secs(2)) between attempts, then the next iteration.
info_backoff ==
    /\ pc = "info_sleep"
    /\ pc' = "info_send"
    /\ attempt' = attempt + 1
    /\ UNCHANGED <<op, containers, handles, config, node, requests, fails,
                   lastResp, result, waitVars>>
    /\ trace' = Append(trace, Req("sleep", TRUE))
    /\ UNCHANGED <<networks, warns, restVars>>

-----------------------------------------------------------------------------
(* start_waku_node *)

call_start_waku_node(cfg) ==
    /\ op = "idle"
    /\ op' = "start_waku_node"
    /\ pc' = "create"
    /\ config' = cfg
    /\ UNCHANGED <<containers, handles, node, attempt, requests, fails,
                   lastResp, result, waitVars>>
    /\ UNCHANGED auxVars

\* create_container whose failure is not returned: the launch goes on to
\* start_container.
create_container_continue(ok) ==
    /\ op = "start_waku_node"
    /\ pc = "create"
    /\ ok => containers[config.name] = "absent"
    /\ containers' = IF ok THEN [containers EXCEPT ![config.name] = "created"]
                         ELSE containers
    /\ pc' = "start"
    /\ UNCHANGED <<op, handles, result, callVars, waitVars>>
    /\ trace' = Append(trace, Req("create_container", ok))
    /\ UNCHANGED <<networks, warns, restVars>>

\* docker.create_container: the runtime refuses a name already in use and
\* may fail for any other reason.
create_container(ok) ==
    /\ op = "start_waku_node"
    /\ pc = "create"
    /\ IF ok
       THEN /\ containers[config.name] = "absent"
            /\ containers' = [containers EXCEPT ![config.name] = "created"]
            /\ pc' = "start"
            /\ UNCHANGED result
       ELSE /\ pc' = "done"
            /\ result' = Err("Failed to create container")
            /\ UNCHANGED containers
    /\ UNCHANGED <<op, handles, callVars, waitVars>>
    /\ trace' = Append(trace, Req("create_container", ok))
    /\ UNCHANGED <<networks, warns, restVars>>

\* start_container with a rollback: the container just created is removed
\* when it cannot be started.
start_container_rollback(ok) ==
    /\ op = "start_waku_node"
    /\ pc = "start"
    /\ IF ok
       THEN /\ containers' = [containers EXCEPT ![config.name] = "running"]
            /\ pc' = "settle"
            /\ UNCHANGED result
       ELSE /\ pc' = "done"
            /\ result' = Err("Failed to start container")
            /\ containers' = [containers EXCEPT ![config.name] = "absent"]
    /\ UNCHANGED <<op, handles, callVars, waitVars>>
    /\ trace' = Append(trace, Req("start_container", ok))
    /\ UNCHANGED <<networks, warns, restVars>>

\* docker.start_container
start_container(ok) ==
    /\ op = "start_waku_node"
    /\ pc = "start"
    /\ IF ok
       THEN /\ containers' = [containers EXCEPT ![config.name] = "running"]
            /\ pc' = "settle"
            /\ UNCHANGED result
       ELSE /\ pc' = "done"
            /\ result' = Err("Failed to start container")
            /\ UNCHANGED containers
    /\ UNCHANGED <<op, handles, callVars, waitVars>>
    /\ trace' = Append(trace, Req("start_container", ok))
    /\ UNCHANGED <<networks, warns, restVars>>

\* sleep(5s), then the handle is built with enr_uri = None and get_node_info
\* is entered.
settle ==
    /\ op = "start_waku_node"
    /\ pc = "settle"
    /\ node' = WakuNode(ContainerId(config.name), config)
    /\ pc' = "info_send"
    /\ attempt' = 1
    /\ requests' = 0
    /\ fails' = 0
    /\ UNCHANGED <<op, containers, handles, config, lastResp, result, waitVars>>
    /\ trace' = Append(trace, Req("sleep", TRUE))
    /\ UNCHANGED <<networks, warns, restVars>>

-----------------------------------------------------------------------------
(* subscribe_to_topic and publish_message: one POST each *)

call_subscribe_to_topic(h, topic) ==
    /\ op = "idle"
    /\ op' = "subscribe_to_topic"
    /\ pc' = "post_send"
    /\ node' = h
    /\ arg' = [NoArg EXCEPT !.topic = topic]
    /\ UNCHANGED <<containers, handles, config, attempt, requests, fails,
                   lastResp, result, waitVars, networks, trace, warns, relay,
                   answer, todo, scenario>>

call_publish_message(h, message) ==
    /\ op = "idle"
    /\ op' = "publish_message"
    /\ pc' = "post_send"
    /\ node' = h
    /\ arg' = [NoArg EXCEPT !.message = message]
    /\ UNCHANGED <<containers, handles, config, attempt, requests, fails,
                   lastResp, result, waitVars, networks, trace, warns, relay,
                   answer, todo, scenario>>

subscribe_to_topic(resp) ==
    /\ op = "subscribe_to_topic"
    /\ pc = "post_send"
    /\ lastResp' = resp
    /\ requests' = requests + 1
    /\ trace' = Append(trace, Req("post_subscriptions", resp.send_ok /\ resp.success))
    /\ result' = subscribe_result(resp)
    /\ pc' = "done"
    /\ UNCHANGED <<op, containers, handles, config, node, attempt, fails,
                   waitVars, networks, warns, restVars>>

publish_message(resp) ==
    /\ op = "publish_message"
    /\ pc = "post_send"
    /\ lastResp' = resp
    /\ requests' = requests + 1
    /\ trace' = Append(trace, Req("post_messages", resp.send_ok /\ resp.success))
    /\ result' = publish_result(resp)
    /\ pc' = "done"
    /\ UNCHANGED <<op, containers, handles, config, node, attempt, fails,
                   waitVars, networks, warns, restVars>>

-----------------------------------------------------------------------------
(* get_peers and get_messages called by the scenario: one GET each *)

call_list(o, h, topic) ==
    /\ op = "idle"
    /\ op' = o
    /\ pc' = "list_send"
    /\ node' = h
    /\ arg' = [NoArg EXCEPT !.topic = topic]
    /\ UNCHANGED <<containers, handles, config, attempt, requests, fails,
                   lastResp, result, waitVars>>
    /\ UNCHANGED <<networks, trace, warns, relay, answer, todo, scenario>>

get_peers(resp) ==
    /\ op = "get_peers"
    /\ pc = "list_send"
    /\ lastResp' = resp
    /\ result' = get_peers_result(resp)
    /\ pc' = "done"
    /\ UNCHANGED <<op, containers, handles, config, node, attempt, requests,
                   fails, waitVars>>
    /\ trace' = Append(trace, Req("get_peers", resp.send_ok /\ resp.success))
    /\ UNCHANGED <<networks, warns, restVars>>

get_messages(resp) ==
    /\ op = "get_messages"
    /\ pc = "list_send"
    /\ lastResp' = resp
    /\ result' = get_messages_result(resp)
    /\ pc' = "done"
    /\ UNCHANGED <<op, containers, handles, config, node, attempt, requests,
                   fails, waitVars>>
    /\ trace' = Append(trace, Req("get_messages", resp.send_ok /\ resp.success))
    /\ UNCHANGED <<networks, warns, restVars>>

-----------------------------------------------------------------------------
\* The loop giving up when the next sleep would pass the deadline.
within_deadline_early == elapsed + 5 < timeout_secs

\* The loop condition of line 301.
within_deadline == elapsed < timeout_secs

(* wait_for_peer_connection.  Time is counted in whole seconds, as           *)
(* start.elapsed().as_secs() reads it; it passes while a peer query is in    *)
(* flight and during the sleep.                                              *)

call_wait_for_peer_connection(h, t) ==
    /\ op = "idle"
    /\ op' = "wait_for_peer_connection"
    /\ pc' = "w_check"
    /\ node' = h
    /\ timeout_secs' = t
    /\ UNCHANGED <<containers, handles, config, attempt, requests, fails,
                   lastResp, result, elapsed, pollTime, sleepLeft, connSince,
                   polls, sleeps, sawConnected, script>>
    /\ UNCHANGED auxVars

\* The loop written as do-while: the first peer query is sent before the
\* deadline is looked at.
loop_check_do_while ==
    /\ op = "wait_for_peer_connection"
    /\ pc = "w_check" \/ (pc = "w_sleep" /\ sleepLeft = 0)
    /\ IF pc = "w_check" \/ within_deadline
       THEN /\ pc' = "w_poll"
            /\ polls' = polls + 1
            /\ pollTime' = 0
            /\ UNCHANGED result
       ELSE /\ pc' = "done"
            /\ result' = OkBool(FALSE)
            /\ UNCHANGED <<polls, pollTime>>
    /\ UNCHANGED <<op, containers, handles, callVars, timeout_secs, elapsed,
                   sleepLeft, connSince, sleeps, sawConnected, script>>
    /\ UNCHANGED auxVars

\* The loop condition of line 301, on entry and after each sleep: the next
\* peer query is sent, or the loop ends and Ok(false) is returned.
loop_check ==
    /\ op = "wait_for_peer_connection"
    /\ pc = "w_check" \/ (pc = "w_sleep" /\ sleepLeft = 0)
    /\ IF within_deadline
       THEN /\ pc' = "w_poll"
            /\ polls' = polls + 1
            /\ pollTime' = 0
            /\ UNCHANGED result
       ELSE /\ pc' = "done"
            /\ result' = OkBool(FALSE)
            /\ UNCHANGED <<polls, pollTime>>
    /\ UNCHANGED <<op, containers, handles, callVars, timeout_secs, elapsed,
                   sleepLeft, connSince, sleeps, sawConnected, script>>
    /\ UNCHANGED auxVars

\* The peer query returns (line 302-307).  Once the endpoint reports a
\* connected peer for good, a query sent from then on is answered with one.
poll_return(resp) ==
    /\ op = "wait_for_peer_connection"
    /\ pc = "w_poll"
    /\ (connSince # -1 /\ connSince <= elapsed - pollTime) => ReportsConnected(resp)
    /\ lastResp' = resp
    /\ sawConnected' = (sawConnected \/ ReportsConnected(resp))
    /\ script' = IF script >= 0 /\ script < Len(ScriptedPolls)
                    /\ resp = ScriptedPolls[script + 1]
                 THEN script + 1
                 ELSE -1
    /\ IF poll_verdict(get_peers_result(resp)).status # "sleep"
       THEN /\ pc' = "done"
            /\ result' = poll_verdict(get_peers_result(resp))
            /\ UNCHANGED <<sleeps, sleepLeft>>
       ELSE /\ pc' = "w_sleep"
            /\ sleeps' = sleeps + 1
            /\ sleepLeft' = PollInterval
            /\ UNCHANGED result
    /\ UNCHANGED <<op, containers, handles, config, node, attempt, requests,
                   fails, timeout_secs, elapsed, pollTime, connSince, polls>>
    /\ UNCHANGED auxVars

\* A second passes, during the peer query in flight or during the sleep.
tick ==
    /\ op = "wait_for_peer_connection"
    /\ \/ /\ pc = "w_poll"
          /\ pollTime < MaxPollTime
          /\ pollTime' = pollTime + 1
          /\ UNCHANGED sleepLeft
       \/ /\ pc = "w_sleep"
          /\ sleepLeft > 0
          /\ sleepLeft' = sleepLeft - 1
          /\ UNCHANGED pollTime
    /\ elapsed' = elapsed + 1
    /\ UNCHANGED <<op, pc, containers, handles, result, callVars, timeout_secs,
                   connSince, polls, sleeps, sawConnected, script>>
    /\ UNCHANGED auxVars

\* The node's peer endpoint begins to report a connected peer, for good.
peer_connects ==
    /\ op = "wait_for_peer_connection"
    /\ pc # "done"
    /\ connSince = -1
    /\ connSince' = elapsed
    /\ UNCHANGED <<op, pc, containers, handles, result, callVars, timeout_secs,
                   elapsed, pollTime, sleepLeft, polls, sleeps, sawConnected,
                   script>>
    /\ UNCHANGED auxVars

-----------------------------------------------------------------------------
\* The locals of the finished call are dropped.
drop_locals ==
    /\ pc = "done"
    /\ op' = "idle"
    /\ pc' = "idle"
    /\ config' = NoConfig
    /\ node' = NoNode
    /\ attempt' = 0
    /\ requests' = 0
    /\ fails' = 0
    /\ lastResp' = NoResp
    /\ result' = NoResult
    /\ timeout_secs' = 0
    /\ elapsed' = 0
    /\ pollTime' = 0
    /\ sleepLeft' = 0
    /\ connSince' = -1
    /\ polls' = 0
    /\ sleeps' = 0
    /\ sawConnected' = FALSE
    /\ script' = 0
    /\ UNCHANGED <<containers, handles>>
    /\ trace' = << >>
    /\ warns' = 0
    /\ arg' = NoArg
    /\ answer' = NoAnswer
    /\ todo' = << >>
    /\ UNCHANGED <<networks, relay>>

\* The caller takes the result.
return == drop_locals /\ UNCHANGED scenario

Next ==
    \/ \E h \in handles : call_get_node_info(h)
    \/ \E resp \in InfoResponses : info_attempt(resp)
    \/ info_backoff
    \/ \E cfg \in Configs : call_start_waku_node(cfg)
    \/ \E ok \in BOOLEAN : create_container(ok)
    \/ \E ok \in BOOLEAN : start_container(ok)
    \/ settle
    \/ \E h \in handles : call_list("get_peers", h, "")
    \/ \E h \in handles, t \in Topics : call_list("get_messages", h, t)
    \/ \E h \in handles, t \in Topics : call_subscribe_to_topic(h, t)
    \/ \E h \in handles, m \in Message : call_publish_message(h, m)
    \/ \E resp \in PostResponses : subscribe_to_topic(resp)
    \/ \E resp \in PostResponses : publish_message(resp)
    \/ \E resp \in PeerResponses : get_peers(resp)
    \/ \E resp \in MessageResponses : get_messages(resp)
    \/ return

\* The launcher, the info resolver and the list operations, called in any
\* order from the state after construction.
Spec == Init /\ [][Next]_vars

-----------------------------------------------------------------------------
(* The convergence check on its own: calls of wait_for_peer_connection on    *)
(* the handle of a node that start_waku_node has launched.                   *)

LaunchedNode ==
    [WakuNode(ContainerId(Config1.name), Config1) EXCEPT !.enr_uri = Some("enr:-a")]

WaitInit ==
    /\ op = "idle"
    /\ pc = "idle"
    /\ containers = [n \in Names |-> IF n = Config1.name THEN "running" ELSE "absent"]
    /\ handles = {LaunchedNode}
    /\ config = NoConfig
    /\ node = NoNode
    /\ attempt = 0
    /\ requests = 0
    /\ fails = 0
    /\ lastResp = NoResp
    /\ result = NoResult
    /\ NoWait
    /\ networks = 0
    /\ trace = << >>
    /\ warns = 0
    /\ relay = [n \in Names |-> NoRelay]
    /\ arg = NoArg
    /\ answer = NoAnswer
    /\ todo = << >>
    /\ scenario = NoScenario

WaitNext ==
    \/ \E h \in handles, t \in Timeouts : call_wait_for_peer_connection(h, t)
    \/ loop_check
    \/ \E resp \in PeerResponses : poll_return(resp)
    \/ tick
    \/ peer_connects
    \/ return

WaitSpec == WaitInit /\ [][WaitNext]_vars

\* The runtime keeps driving the future: the sleep ends, time passes, and the
\* HTTP client (30 s timeout) returns from every request.
WaitFairSpec ==
    /\ WaitSpec
    /\ WF_vars(loop_check)
    /\ WF_vars(tick)
    /\ WF_vars(\E resp \in PeerResponses : poll_return(resp))

-----------------------------------------------------------------------------
(* Properties of the info resolver and the launcher, checked under Spec *)

InInfo == op \in {"get_node_info", "start_waku_node"}

Exhausted == Err("Failed to get node info after 5 attempts")

ParseError == Err("Failed to parse node info response")

\* The last GET was answered with a success status and a readable body.
GotText == lastResp.seen /\ lastResp.send_ok /\ lastResp.success /\ lastResp.text_ok

\* C1: get_node_info sends at most 5 GETs per call.  While every answer is a
\* transport failure or a non-success status it goes on to the next attempt
\* until 5 have been made; the first success-status answer is the last
\* request; after 4 failures a parsable success is resolved by the 5th
\* request; the exhaustion error is returned only after exactly 5 failed
\* requests.
C1_AtMostFiveAttempts ==
    InInfo =>
        /\ requests <= 5
        /\ requests = fails + (IF lastResp.seen /\ lastResp.send_ok /\ lastResp.success
                               THEN 1 ELSE 0)
        /\ (requests > 0 /\ requests = fails /\ fails < 5)
              => pc \in {"info_sleep", "info_send"}
        /\ (requests = fails /\ fails = 5)
              => (pc = "done" /\ result = Exhausted)
        /\ (pc = "done" /\ result = Exhausted) => (requests = 5 /\ fails = 5)
        /\ (fails = 4 /\ GotText /\ parse_node_info(lastResp.body).status = "ok")
              => (pc = "done" /\ result.status = "ok" /\ requests = 5)

\* Four failed attempts, then a success on the 5th.
C1_Witness ==
    /\ op = "get_node_info"
    /\ pc = "done"
    /\ fails = 4
    /\ requests = 5
    /\ result.status = "ok"

\* C2: a success status whose body neither decoder accepts ends the call at
\* that attempt with the parse error; that request is the last one.
C2_ParseErrorEndsCall ==
    (InInfo /\ GotText /\ ~lastResp.body.top.present /\ ~lastResp.body.data.present)
        => /\ pc = "done"
           /\ result = ParseError
           /\ requests = fails + 1

\* The parse error on the 2nd attempt, 3 attempts unused.
C2_Witness ==
    /\ op = "get_node_info"
    /\ pc = "done"
    /\ result = ParseError
    /\ requests = 2

\* C3: on a success status the bare-record decoder decides when it accepts
\* the body, the envelope decoder when only it does; a bare body and an
\* envelope body carrying the same record r both make get_node_info return r.
C3_FirstDecoderWins ==
    (op = "get_node_info" /\ GotText) =>
        /\ lastResp.body.top.present => result = OkInfo(lastResp.body.top.rec)
        /\ (~lastResp.body.top.present /\ lastResp.body.data.present)
              => result = OkInfo(lastResp.body.data.rec)
        /\ \A r \in NodeInfo :
              lastResp.body \in {BareBody(r), WrappedBody(r)} => result = OkInfo(r)

\* An envelope body resolved to the record it wraps.
C3_Witness ==
    /\ op = "get_node_info"
    /\ pc = "done"
    /\ \E r \in NodeInfo :
          /\ r.enr_uri = "enr:-a"
          /\ lastResp = Resp(TRUE, TRUE, TRUE, WrappedBody(r))
          /\ result = OkInfo(r)

\* C4: every handle start_waku_node returned has enr_uri = Some(..); it
\* returns a handle only after get_node_info answered, and an error, with no
\* handle, when the resolution failed.
C4_ReturnedHandleResolved ==
    /\ \A h \in handles : h.enr_uri.some
    /\ (op = "start_waku_node" /\ pc = "done") =>
          IF result.status = "ok"
          THEN /\ result.node \in handles
               /\ result.node.enr_uri.some
               /\ requests >= 1
          ELSE /\ result.status = "err"
               /\ result.node = NoNode
               /\ node \notin handles

\* A launch that failed in the info resolution, after an earlier launch of
\* the other node returned its handle.
C4_Witness ==
    /\ op = "start_waku_node"
    /\ pc = "done"
    /\ requests = 5
    /\ result = Exhausted
    /\ handles # {}

\* C5: the handle start_waku_node returns carries an address record that is
\* Some and not the empty string, whatever record the info endpoint returned.
C5_ReturnedHandleNonEmpty ==
    \A h \in handles : h.enr_uri.some /\ h.enr_uri.v # ""

\* C10: get_messages and get_peers return Ok with an empty list on a
\* non-success status; they return an error exactly when the request could
\* not be sent or the body of a success status could not be read and parsed.
C10_ListsEmptyOnFailureStatus ==
    (op \in {"get_peers", "get_messages"} /\ pc = "done") =>
        /\ StatusFailure(lastResp) => result = OkList(<< >>)
        /\ result.status \in {"ok", "err"}
        /\ result.status = "err" <=>
              \/ TransportFailure(lastResp)
              \/ /\ lastResp.send_ok /\ lastResp.success
                 /\ ~(lastResp.text_ok /\ lastResp.body.parses)

\* get_messages answered with a non-success status.
C10_Witness ==
    /\ op = "get_messages"
    /\ pc = "done"
    /\ StatusFailure(lastResp)
    /\ result = OkList(<< >>)

-----------------------------------------------------------------------------
(* Properties of the convergence check, under WaitSpec and WaitFairSpec *)

InWait == op = "wait_for_peer_connection"

\* Peer queries of the running call that have been answered.
answered == polls - (IF pc = "w_poll" THEN 1 ELSE 0)

\* C6: wait_for_peer_connection returns Ok(true) or Ok(false), never an
\* error, whatever the polls answer; every answered poll that listed no
\* connected peer (transport failure, failure status, unparsable body, empty
\* list, unconnected peers only) was followed by one sleep, after which the
\* loop condition alone decides between the next poll and Ok(false).
C6_NonConvergenceIsNotAnError ==
    InWait =>
        /\ pc = "done" => result \in {OkBool(TRUE), OkBool(FALSE)}
        /\ pc # "done" => result = NoResult
        /\ sleeps = answered - (IF sawConnected THEN 1 ELSE 0)
        /\ pc = "w_sleep" => (lastResp.seen /\ ~ReportsConnected(lastResp))
        /\ (pc = "done" /\ result = OkBool(FALSE)) => elapsed >= timeout_secs

\* A poll that failed in transport, slept over, and the next poll in flight.
C6_Witness ==
    /\ InWait
    /\ pc = "w_poll"
    /\ polls = 2
    /\ sleeps = 1
    /\ TransportFailure(lastResp)

\* C7: wait_for_peer_connection returns true exactly when an answer to one
\* of its polls lists a peer with connected = true; every poll is sent while
\* elapsed < timeout; it returns at that answer, with no sleep or poll after
\* it; on the answers [], [{connected:false}], [{connected:true}] it returns
\* true at the third poll.
C7_TrueIffConnectedPoll ==
    InWait =>
        /\ pc = "done" => result.flag = sawConnected
        /\ sawConnected =>
              /\ pc = "done"
              /\ result = OkBool(TRUE)
              /\ ReportsConnected(lastResp)
              /\ sleeps = polls - 1
        /\ pc = "w_poll" => elapsed - pollTime < timeout_secs
        /\ script = 3 => (pc = "done" /\ result = OkBool(TRUE) /\ polls = 3)

\* The scripted answers, one poll each.
C7_Witness ==
    /\ InWait
    /\ script = 3
    /\ polls = 3
    /\ result = OkBool(TRUE)

\* The latest time the call can still be running once the endpoint reports a
\* connected peer: one sleep and one more query, after the query that was in
\* flight when the report began (sent at least a second before it) returned.
ConvergenceBound ==
    connSince + 5 + MaxPollTime + (IF MaxPollTime > 0 THEN MaxPollTime - 1 ELSE 0)

\* C8 as stated: once the peer endpoint reports a connected peer, at a time
\* when the timeout has not elapsed, the call returns true within one poll
\* interval (the time the queries themselves take allowed on top).
C8_TrueWithinOneInterval ==
    (InWait /\ connSince # -1 /\ connSince < timeout_secs) =>
        /\ elapsed <= ConvergenceBound
        /\ pc = "done" => result = OkBool(TRUE)

\* C8 amended: once the peer endpoint reports a connected peer, the call
\* ends within one poll interval plus the time of the query in flight and of
\* one more query; no query sent in a later second than the report began is
\* slept over (it returns true); the call returns false instead only if the
\* timeout has elapsed when the query in flight and the sleep after it are
\* over.
C8_TrueAtNextPollUnlessDeadline ==
    (InWait /\ connSince # -1) =>
        /\ elapsed <= ConvergenceBound
        /\ pc = "w_sleep" => elapsed - (5 - sleepLeft) - pollTime <= connSince
        /\ pc = "done" =>
              \/ result = OkBool(TRUE)
              \/ /\ result = OkBool(FALSE)
                 /\ elapsed >= timeout_secs
                 /\ elapsed <= connSince + 5 + MaxPollTime

\* The endpoint reported a connected peer during the sleep and the next poll
\* returned true.
C8_Witness ==
    /\ InWait
    /\ pc = "done"
    /\ result = OkBool(TRUE)
    /\ polls = 2
    /\ connSince > 0
    /\ elapsed - connSince >= 3

\* C9: every call of wait_for_peer_connection returns; when no poll saw a
\* connected peer it returns false; and false is returned only when the
\* elapsed time has reached the timeout.
C9_TerminatesFalseAtDeadline ==
    /\ [](InWait /\ pc # "done" => <>(pc = "done"))
    /\ [](InWait /\ pc = "done" /\ ~sawConnected => result = OkBool(FALSE))
    /\ [](InWait /\ pc = "done" /\ result = OkBool(FALSE) => elapsed >= timeout_secs)

\* Three polls without a connected peer, false after the deadline.
C9_Witness ==
    /\ InWait
    /\ pc = "done"
    /\ result = OkBool(FALSE)
    /\ polls = 3
    /\ connSince = -1
    /\ timeout_secs = 11
    /\ elapsed >= 15

-----------------------------------------------------------------------------
(* Properties of subscribe_to_topic and publish_message, under Spec *)

InPost == op \in {"subscribe_to_topic", "publish_message"}

\* C11: subscribe_to_topic and publish_message each send exactly one POST and
\* never a second; they return Ok exactly when that request was answered with
\* a status in 200..299; a status outside it gives an error that carries the
\* status, and a request that could not be sent gives an error.
C11_OnePostOkIffSuccessStatus ==
    InPost /\ pc = "done" =>
        /\ requests = 1
        /\ Len(trace) = 1
        /\ trace[1].req = (IF op = "subscribe_to_topic"
                           THEN "post_subscriptions" ELSE "post_messages")
        /\ result.status = "ok" <=>
               (lastResp.send_ok /\ lastResp.body.status \in 200..299)
        /\ lastResp.send_ok /\ lastResp.body.status \notin 200..299 =>
               result.status = "err" /\ result.code = lastResp.body.status
        /\ ~lastResp.send_ok => result.status = "err"

\* A publication answered 503 and a subscription answered 204.
C11_Witness ==
    \/ /\ op = "publish_message"
       /\ pc = "done"
       /\ result = ErrStatus("Message publication failed with status", 503)
    \/ /\ op = "subscribe_to_topic"
       /\ pc = "done"
       /\ lastResp.body.status = 204
       /\ result = Ok

-----------------------------------------------------------------------------
(* The container runtime as the cleanup and network operations meet it.      *)
(* networks counts the networks named self.network_name.                     *)

ContainerStates == {"absent", "created", "running", "exited"}

\* The containers the filter name = "waku-node" with all = true selects: every
\* existing container whose name contains that text, in the runtime's order.
MatchesFilter(name) == name \in {"waku-node", "waku-node-1", "waku-node-2"}

RECURSIVE SeqOf(_)

SeqOf(S) ==
    IF S = {} THEN << >>
    ELSE LET x == CHOOSE y \in S : TRUE IN <<x>> \o SeqOf(S \ {x})

Listed == SeqOf({n \in Names : MatchesFilter(n) /\ containers[n] # "absent"})

\* The runtime can say yes to a stop only for a container that exists.
CanStop(id) == containers[id] # "absent"

Stopped(id) ==
    [containers EXCEPT ![id] = IF @ = "running" THEN "exited" ELSE @]

\* Without force the runtime removes only a container that is not running.
CanRemove(id) == containers[id] \in {"created", "exited"}

Removed(id) == [containers EXCEPT ![id] = "absent"]

\* What docker.create_network answers: the network was created, a network of
\* that name already exists, or any other failure.
NetworkAnswers == {"created", "already exists", "other error"}

\* The match on the answer of create_network, with no arm for "already exists".
setup_network_result_strict(answer_) ==
    IF answer_ = "created" THEN Ok ELSE Err(answer_)

\* The match on the answer of create_network.
setup_network_result(answer_) ==
    IF answer_ = "created" THEN Ok
    ELSE IF answer_ = "already exists" THEN Ok
    ELSE Err(answer_)

ReqAnswer(what, answer_) ==
    [req |-> what, ok |-> answer_ = "created", answer |-> answer_]

-----------------------------------------------------------------------------
(* setup_network: one create_network request *)

call_setup_network ==
    /\ op = "idle"
    /\ op' = "setup_network"
    /\ pc' = "create_network"
    /\ UNCHANGED <<containers, handles, result, callVars, waitVars, auxVars>>

\* create_network whose failure is only logged, as cleanup_network does.
create_network_swallow(answer_) ==
    /\ op = "setup_network"
    /\ pc = "create_network"
    /\ answer_ = "created" => networks = 0
    /\ answer_ = "already exists" => networks > 0
    /\ networks' = IF answer_ = "created" THEN networks + 1 ELSE networks
    /\ trace' = Append(trace, ReqAnswer("create_network", answer_))
    /\ result' = Ok
    /\ pc' = "done"
    /\ UNCHANGED <<op, containers, handles, callVars, waitVars, warns, restVars>>

create_network(answer_) ==
    /\ op = "setup_network"
    /\ pc = "create_network"
    /\ answer_ = "created" => networks = 0
    /\ answer_ = "already exists" => networks > 0
    /\ networks' = IF answer_ = "created" THEN networks + 1 ELSE networks
    /\ trace' = Append(trace, ReqAnswer("create_network", answer_))
    /\ result' = setup_network_result(answer_)
    /\ pc' = "done"
    /\ UNCHANGED <<op, containers, handles, callVars, waitVars, warns, restVars>>

-----------------------------------------------------------------------------
(* cleanup_node: stop, then remove, each failure a warning *)

call_cleanup_node(h) ==
    /\ op = "idle"
    /\ op' = "cleanup_node"
    /\ pc' = "stop"
    /\ node' = h
    /\ UNCHANGED <<containers, handles, result, config, attempt, requests,
                   fails, lastResp, waitVars, auxVars>>

\* stop_container whose failure is returned with ? in place of the warning.
stop_container_propagate(ok) ==
    /\ op = "cleanup_node"
    /\ pc = "stop"
    /\ ok => CanStop(node.container_id)
    /\ containers' = IF ok THEN Stopped(node.container_id) ELSE containers
    /\ trace' = Append(trace, Req("stop_container", ok))
    /\ IF ok
       THEN pc' = "remove" /\ UNCHANGED result
       ELSE pc' = "done" /\ result' = Err("Failed to stop container")
    /\ UNCHANGED <<op, handles, callVars, waitVars, networks, warns, restVars>>

stop_container(ok) ==
    /\ op = "cleanup_node"
    /\ pc = "stop"
    /\ ok => CanStop(node.container_id)
    /\ containers' = IF ok THEN Stopped(node.container_id) ELSE containers
    /\ trace' = Append(trace, Req("stop_container", ok))
    /\ warns' = warns + (IF ok THEN 0 ELSE 1)
    /\ pc' = "remove"
    /\ UNCHANGED <<op, handles, result, callVars, waitVars, networks, restVars>>

remove_container(ok) ==
    /\ op = "cleanup_node"
    /\ pc = "remove"
    /\ ok => CanRemove(node.container_id)
    /\ containers' = IF ok THEN Removed(node.container_id) ELSE containers
    /\ trace' = Append(trace, Req("remove_container", ok))
    /\ warns' = warns + (IF ok THEN 0 ELSE 1)
    /\ result' = Ok
    /\ pc' = "done"
    /\ UNCHANGED <<op, handles, callVars, waitVars, networks, restVars>>

-----------------------------------------------------------------------------
(* cleanup_network: one remove_network request, its failure a warning *)

call_cleanup_network ==
    /\ op = "idle"
    /\ op' = "cleanup_network"
    /\ pc' = "remove_network"
    /\ UNCHANGED <<containers, handles, result, callVars, waitVars, auxVars>>

remove_network(ok) ==
    /\ op = "cleanup_network"
    /\ pc = "remove_network"
    /\ ok => networks > 0
    /\ networks' = IF ok THEN networks - 1 ELSE networks
    /\ trace' = Append(trace, Req("remove_network", ok))
    /\ warns' = warns + (IF ok THEN 0 ELSE 1)
    /\ result' = Ok
    /\ pc' = "done"
    /\ UNCHANGED <<op, containers, handles, callVars, waitVars, restVars>>

-----------------------------------------------------------------------------
(* cleanup_existing_containers: list, then stop and remove each listed       *)
(* container, the outcome of either discarded with let _                     *)

call_cleanup_existing_containers ==
    /\ op = "idle"
    /\ op' = "cleanup_existing_containers"
    /\ pc' = "list"
    /\ UNCHANGED <<containers, handles, result, callVars, waitVars, auxVars>>

\* docker.list_containers(options).await?
list_containers(ok) ==
    /\ op = "cleanup_existing_containers"
    /\ pc = "list"
    /\ trace' = Append(trace, Req("list_containers", ok))
    /\ IF ok
       THEN /\ todo' = Listed
            /\ IF Listed = << >>
               THEN pc' = "done" /\ result' = Ok
               ELSE pc' = "sweep_stop" /\ UNCHANGED result
       ELSE /\ pc' = "done"
            /\ result' = Err("list_containers failed")
            /\ UNCHANGED todo
    /\ UNCHANGED <<op, containers, handles, callVars, waitVars, networks,
                   warns, relay, arg, answer, scenario>>

sweep_stop(ok) ==
    /\ op = "cleanup_existing_containers"
    /\ pc = "sweep_stop"
    /\ ok => CanStop(Head(todo))
    /\ containers' = IF ok THEN Stopped(Head(todo)) ELSE containers
    /\ trace' = Append(trace, Req("stop_container", ok))
    /\ pc' = "sweep_remove"
    /\ UNCHANGED <<op, handles, result, callVars, waitVars, networks, warns,
                   restVars>>

sweep_remove(ok) ==
    /\ op = "cleanup_existing_containers"
    /\ pc = "sweep_remove"
    /\ ok => CanRemove(Head(todo))
    /\ containers' = IF ok THEN Removed(Head(todo)) ELSE containers
    /\ trace' = Append(trace, Req("remove_container", ok))
    /\ todo' = Tail(todo)
    /\ IF Tail(todo) = << >>
       THEN pc' = "done" /\ result' = Ok
       ELSE pc' = "sweep_stop" /\ UNCHANGED result
    /\ UNCHANGED <<op, handles, callVars, waitVars, networks, warns, relay,
                   arg, answer, scenario>>

-----------------------------------------------------------------------------
(* The network and cleanup operations, called in any order on a runtime that *)
(* earlier launches and cleanups have left in any state: a handle exists for *)
(* every name whose launch went through.                                     *)

Launched(cfg) ==
    [WakuNode(ContainerId(cfg.name), cfg) EXCEPT !.enr_uri = Some("enr:-a")]

RuntimeInit ==
    /\ op = "idle"
    /\ pc = "idle"
    /\ containers \in [Names -> ContainerStates]
    /\ handles = {Launched(cfg) : cfg \in {c \in Configs : containers[c.name] # "created"}}
    /\ config = NoConfig
    /\ node = NoNode
    /\ attempt = 0
    /\ requests = 0
    /\ fails = 0
    /\ lastResp = NoResp
    /\ result = NoResult
    /\ NoWait
    /\ networks \in {0, 1}
    /\ trace = << >>
    /\ warns = 0
    /\ relay = [n \in Names |-> NoRelay]
    /\ arg = NoArg
    /\ answer = NoAnswer
    /\ todo = << >>
    /\ scenario = NoScenario

RuntimeNext ==
    \/ call_setup_network
    \/ \E answer_ \in NetworkAnswers : create_network(answer_)
    \/ \E h \in handles : call_cleanup_node(h)
    \/ \E ok \in BOOLEAN : stop_container(ok)
    \/ \E ok \in BOOLEAN : remove_container(ok)
    \/ call_cleanup_network
    \/ \E ok \in BOOLEAN : remove_network(ok)
    \/ call_cleanup_existing_containers
    \/ \E ok \in BOOLEAN : list_containers(ok)
    \/ \E ok \in BOOLEAN : sweep_stop(ok)
    \/ \E ok \in BOOLEAN : sweep_remove(ok)
    \/ return

RuntimeSpec == RuntimeInit /\ [][RuntimeNext]_vars

-----------------------------------------------------------------------------
(* Properties of the network and cleanup operations, under RuntimeSpec *)

CleanupOps == {"cleanup_node", "cleanup_network", "cleanup_existing_containers"}

Returned(o) == op = o /\ pc = "done"

\* C12: cleanup_node returns Ok whatever state the container is in; it always
\* sends the stop request and then the remove request, also when the stop
\* request failed, and returns neither failure.
C12_CleanupNodeAlwaysOk ==
    Returned("cleanup_node") =>
        /\ result = Ok
        /\ Len(trace) = 2
        /\ trace[1].req = "stop_container"
        /\ trace[2].req = "remove_container"

\* cleanup_node on a container that was already removed: both requests fail.
C12_Witness ==
    /\ Returned("cleanup_node")
    /\ containers[node.container_id] = "absent"
    /\ trace = <<Req("stop_container", FALSE), Req("remove_container", FALSE)>>
    /\ result = Ok

\* C13: cleanup_node, cleanup_network and cleanup_existing_containers return
\* Ok whatever the runtime answers to any of their requests, the container
\* listing included.
C13_CleanupNeverFails ==
    op \in CleanupOps /\ pc = "done" => result = Ok

\* The failed stop-container, remove-container and remove-network requests of
\* the operation in progress.
FailedRequests ==
    {i \in 1..Len(trace) :
        /\ trace[i].req \in {"stop_container", "remove_container", "remove_network"}
        /\ ~trace[i].ok}

\* C19: every failed stop-container, remove-container or remove-network
\* request of a cleanup operation has produced a log record by the time the
\* operation returns.
C19_EverySwallowedFailureLogged ==
    op \in CleanupOps /\ pc = "done" => warns = Cardinality(FailedRequests)

\* C14: setup_network sends one create_network request and returns Ok when the
\* runtime answers that it created the network or that the network already
\* exists, so a second call succeeds like the first; there is never more than
\* one network of the name.
C14_SetupNetworkIdempotent ==
    /\ networks <= 1
    /\ Returned("setup_network") =>
           /\ Len(trace) = 1
           /\ trace[1].req = "create_network"
           /\ trace[1].answer \in {"created", "already exists"} =>
                  result = Ok /\ networks = 1

\* A call that found the network of an earlier call.
C14_Witness ==
    /\ Returned("setup_network")
    /\ trace[1].answer = "already exists"
    /\ result = Ok
    /\ networks = 1

-----------------------------------------------------------------------------
(* Properties of the launch sequence and of the retry budget, under Spec *)

\* C17: start_waku_node asks for the container to be created, then started,
\* then sleeps, then resolves the info, in that order; a failed creation is
\* followed by no start request, and a failed creation or start ends the
\* launch with an error, no info request sent and no handle built.
C17_LaunchOrder ==
    op = "start_waku_node" =>
        /\ Len(trace) >= 1 => trace[1].req = "create_container"
        /\ Len(trace) >= 2 => trace[1].ok /\ trace[2].req = "start_container"
        /\ Len(trace) >= 3 => trace[2].ok /\ trace[3].req = "sleep"
        /\ Len(trace) >= 4 => trace[4].req = "get_info"
        /\ \A i \in 1..Len(trace) : trace[i].req = "get_info" => i >= 4
        /\ requests > 0 => Len(trace) >= 4
        /\ Len(trace) \in 1..2 /\ ~trace[Len(trace)].ok =>
               /\ pc = "done"
               /\ result.status = "err"
               /\ result.node = NoNode
               /\ node = NoNode
               /\ requests = 0
        /\ pc = "done" /\ result.status = "ok" =>
               /\ Len(trace) >= 4
               /\ result.node = node
               /\ node \in handles

\* A launch whose container was created but could not be started.
C17_Witness ==
    /\ op = "start_waku_node"
    /\ pc = "done"
    /\ trace = <<Req("create_container", TRUE), Req("start_container", FALSE)>>
    /\ result = Err("Failed to start container")
    /\ containers[config.name] = "created"

\* C18: info resolution that ends in an error other than the parse error of
\* C2 has used all 5 attempts: transport failures, non-success statuses and
\* failures to read the body of a success-status answer are all retried.
C18_TransientRetriedToBudget ==
    (InInfo /\ pc = "done" /\ requests > 0
        /\ result.status = "err" /\ result # ParseError)
    => requests = 5

-----------------------------------------------------------------------------
(* A relay node behind the REST gateway, as the round-trip test relies on    *)
(* it: it remembers subscriptions, keeps the documents published on a        *)
(* subscribed topic, and hands them out, once, to the next listing of that   *)
(* topic.  Each cached document is paired with the Message it came from.     *)

Held(n) == relay[n].cache

\* The request in flight has not been answered yet.
Unanswered == ~answer.resp.seen

\* POST /relay/v1/auto/subscriptions with [topic]
node_subscribes ==
    /\ op = "subscribe_to_topic"
    /\ pc = "post_send"
    /\ Unanswered
    /\ relay' = [relay EXCEPT ![node.name].subscribed = @ \cup {arg.topic}]
    /\ answer' = Answer(PostResp(TRUE, 200))
    /\ UNCHANGED <<op, pc, containers, handles, result, callVars, waitVars,
                   networks, trace, warns, arg, todo, scenario>>

\* POST /relay/v1/auto/messages with the document of the message: kept when
\* the node is subscribed to its topic, refused otherwise.
node_relays ==
    /\ op = "publish_message"
    /\ pc = "post_send"
    /\ Unanswered
    /\ LET doc == serialize(arg.message)
       IN  IF doc.contentTopic \in relay[node.name].subscribed
           THEN /\ Len(Held(node.name)) < MaxMessages
                /\ relay' = [relay EXCEPT ![node.name].cache =
                                Append(@, [doc |-> doc, orig |-> arg.message])]
                /\ answer' = Answer(PostResp(TRUE, 200))
           ELSE /\ answer' = Answer(PostResp(TRUE, 400))
                /\ UNCHANGED relay
    /\ UNCHANGED <<op, pc, containers, handles, result, callVars, waitVars,
                   networks, trace, warns, arg, todo, scenario>>

\* GET /relay/v1/auto/messages/{topic}: the documents held for the topic of
\* the path, which leave the cache.
node_lists ==
    /\ op = "get_messages"
    /\ pc = "list_send"
    /\ Unanswered
    /\ LET path == urlencode(TopicText(arg.topic))
           hit(e) == TopicText(e.doc.contentTopic) = urldecode(path)
           miss(e) == ~hit(e)
           hits == SelectSeq(Held(node.name), hit)
       IN  /\ relay' = [relay EXCEPT ![node.name].cache = SelectSeq(@, miss)]
           /\ answer' =
                  [resp |-> Resp(TRUE, TRUE, TRUE,
                                 [parses |-> TRUE,
                                  items |-> [i \in 1..Len(hits) |->
                                                deserialize(hits[i].doc)]]),
                   handed |-> [i \in 1..Len(hits) |-> hits[i].orig]]
    /\ UNCHANGED <<op, pc, containers, handles, result, callVars, waitVars,
                   networks, trace, warns, arg, todo, scenario>>

\* The request does not reach the node: send() fails.
request_lost ==
    /\ \/ op \in {"subscribe_to_topic", "publish_message"} /\ pc = "post_send"
       \/ op = "get_messages" /\ pc = "list_send"
    /\ Unanswered
    /\ answer' = Answer(IF op = "get_messages"
                        THEN Resp(FALSE, FALSE, FALSE, NoList)
                        ELSE PostResp(FALSE, 0))
    /\ UNCHANGED <<op, pc, containers, handles, result, callVars, waitVars,
                   networks, trace, warns, relay, arg, todo, scenario>>

RelayInit ==
    /\ op = "idle"
    /\ pc = "idle"
    /\ containers = [n \in Names |-> IF n = Config1.name THEN "running" ELSE "absent"]
    /\ handles = {LaunchedNode}
    /\ config = NoConfig
    /\ node = NoNode
    /\ attempt = 0
    /\ requests = 0
    /\ fails = 0
    /\ lastResp = NoResp
    /\ result = NoResult
    /\ NoWait
    /\ networks = 0
    /\ trace = << >>
    /\ warns = 0
    /\ relay = [n \in Names |-> NoRelay]
    /\ arg = NoArg
    /\ answer = NoAnswer
    /\ todo = << >>
    /\ scenario = NoScenario

RelayNext ==
    \/ \E h \in handles, t \in Topics : call_subscribe_to_topic(h, t)
    \/ node_subscribes
    \/ ~Unanswered /\ subscribe_to_topic(answer.resp)
    \/ \E h \in handles, m \in Message : call_publish_message(h, m)
    \/ node_relays
    \/ ~Unanswered /\ publish_message(answer.resp)
    \/ \E h \in handles, t \in Topics : call_list("get_messages", h, t)
    \/ node_lists
    \/ ~Unanswered /\ get_messages(answer.resp)
    \/ request_lost
    \/ return

\* subscribe_to_topic, publish_message and get_messages, called in any order
\* on the handle of a launched node that behaves as above.
RelaySpec == RelayInit /\ [][RelayNext]_vars

-----------------------------------------------------------------------------
(* The round trip, under RelaySpec *)

\* C15: a message built by create_test_message(content, topic) and published
\* with success to a node subscribed to the topic is held by the node with
\* its payload as sent, and get_messages on that topic returns one entry for
\* each message held, in order, whose base64-decoded payload equals content
\* and whose topic equals the published topic: exactly one entry after one
\* publication.
C15_PublishListRoundTrip ==
    /\ (Returned("publish_message") /\ result = Ok) =>
           /\ Held(node.name) # << >>
           /\ Held(node.name)[Len(Held(node.name))].orig = arg.message
           /\ Held(node.name)[Len(Held(node.name))].doc.payload = arg.message.payload
    /\ (Returned("get_messages") /\ result.status = "ok" /\ lastResp.success) =>
           /\ Len(result.list) = Len(answer.handed)
           /\ \A i \in 1..Len(result.list) :
                \A c \in Contents, t \in Topics, ts \in Timestamps :
                    answer.handed[i] = create_test_message(c, t, ts) =>
                        /\ decode(result.list[i].payload) = [ok |-> TRUE, bytes |-> c]
                        /\ result.list[i].content_topic = t
                        /\ t = arg.topic
                        /\ result.list[i].payload = answer.handed[i].payload

\* The listing after one publication of "M?", whose base64 text ends in =.
C15_Witness ==
    /\ Returned("get_messages")
    /\ arg.topic = TestTopic
    /\ Len(result.list) = 1
    /\ decode(result.list[1].payload) = [ok |-> TRUE, bytes |-> <<77, 63>>]
    /\ result.list[1].payload[4] = Pad
    /\ result.list[1].content_topic = TestTopic
    /\ Held(node.name) = << >>

-----------------------------------------------------------------------------
(* Two scenarios at once.  The operations above are those of suite 1, which  *)
(* launches DefaultConfig; suite 2 runs beside it on its own framework and   *)
(* launches Config1: its create and start requests reach the same runtime    *)
(* between any two steps of suite 1.                                         *)

Workflow(name) == IF name = DefaultConfig.name THEN "suite_1" ELSE "suite_2"

\* suite 2: docker.create_container inside start_waku_node(config1)
peer_create_container ==
    /\ containers[Config1.name] = "absent"
    /\ containers' = [containers EXCEPT ![Config1.name] = "created"]
    /\ UNCHANGED <<op, pc, handles, result, callVars, waitVars, auxVars>>

\* suite 2: docker.start_container inside start_waku_node(config1)
peer_start_container ==
    /\ containers[Config1.name] = "created"
    /\ containers' = [containers EXCEPT ![Config1.name] = "running"]
    /\ UNCHANGED <<op, pc, handles, result, callVars, waitVars, auxVars>>

ConcurrentNext ==
    \/ call_cleanup_existing_containers
    \/ \E ok \in BOOLEAN : list_containers(ok)
    \/ \E ok \in BOOLEAN : sweep_stop(ok)
    \/ \E ok \in BOOLEAN : sweep_remove(ok)
    \/ call_start_waku_node(DefaultConfig)
    \/ \E ok \in BOOLEAN : create_container(ok)
    \/ \E ok \in BOOLEAN : start_container(ok)
    \/ settle
    \/ \E resp \in InfoResponses : info_attempt(resp)
    \/ info_backoff
    \/ \E h \in handles : call_cleanup_node(h)
    \/ \E ok \in BOOLEAN : stop_container(ok)
    \/ \E ok \in BOOLEAN : remove_container(ok)
    \/ return
    \/ peer_create_container
    \/ peer_start_container

ConcurrentSpec == Init /\ [][ConcurrentNext]_vars

\* C16: while suite 1 and suite 2 run at once under different container
\* names, no operation of suite 1 stops or removes a container that suite 2
\* launched: a container changes state under an operation of suite 1 only if
\* it carries suite 1's name.
C16_OnlyOwnerStopsOrRemoves ==
    [][\A n \in Names :
          (op # "idle" /\ containers'[n] # containers[n]
              /\ containers'[n] \in {"exited", "absent"})
          => Workflow(n) = "suite_1"]_vars

-----------------------------------------------------------------------------
(* The life of suite 2's handle node1: launched, resolved again after the    *)
(* network connection and written back by the scenario, used, cleaned up.    *)

\* let node1_info = get_node_info(&node1)...; node1.enr_uri = Some(node1_info.enr_uri.clone());
refresh_handle ==
    /\ op = "get_node_info"
    /\ pc = "done"
    /\ result.status = "ok"
    /\ node \in handles
    /\ handles' = (handles \ {node})
                      \cup {[node EXCEPT !.enr_uri = Some(result.info.enr_uri)]}
    /\ UNCHANGED <<op, pc, containers, result, callVars, waitVars, auxVars>>

ScenarioNext ==
    \/ call_start_waku_node(Config1)
    \/ \E ok \in BOOLEAN : create_container(ok)
    \/ \E ok \in BOOLEAN : start_container(ok)
    \/ settle
    \/ \E h \in handles : call_get_node_info(h)
    \/ \E resp \in InfoResponses : info_attempt(resp)
    \/ info_backoff
    \/ refresh_handle
    \/ \E h \in handles : call_subscribe_to_topic(h, TestTopic)
    \/ \E resp \in PostResponses : subscribe_to_topic(resp)
    \/ \E h \in handles : call_cleanup_node(h)
    \/ \E ok \in BOOLEAN : stop_container(ok)
    \/ \E ok \in BOOLEAN : remove_container(ok)
    \/ return

ScenarioSpec == Init /\ [][ScenarioNext]_vars

\* C20: a handle is built with enr_uri = None, the info resolution inside the
\* launch writes enr_uri once, and from then on no operation and no scenario
\* step changes any field of it: a handle that has been returned stays as it
\* is, also through cleanup_node.
C20_HandleWrittenOnce ==
    [][/\ handles \subseteq handles'
       /\ (node # NoNode /\ node' # NoNode /\ node' # node) =>
              /\ op = "start_waku_node"
              /\ node.enr_uri = None
              /\ node' = [node EXCEPT !.enr_uri = node'.enr_uri]]_vars

-----------------------------------------------------------------------------
(* Failures of network creation, under RuntimeSpec *)

\* C22: setup_network returns an error for every failure of create_network
\* whose text does not say that the network already exists, and returns Ok
\* only when the runtime created the network or answered that it already
\* exists.
C22_OtherNetworkFailuresReturned ==
    Returned("setup_network") =>
        /\ result.status \in {"ok", "err"}
        /\ trace[1].answer = "other error" => result = Err("other error")
        /\ result.status = "ok" =>
               trace[1].answer \in {"created", "already exists"}
        /\ result.status = "err" => ~trace[1].ok

\* A creation that failed for another reason while no network exists.
C22_Witness ==
    /\ Returned("setup_network")
    /\ trace = <<ReqAnswer("create_network", "other error")>>
    /\ result.status = "err"
    /\ networks = 0

-----------------------------------------------------------------------------
(* The first poll and the sleeps of the convergence check, under WaitSpec *)

\* Sleeps of the running call that have run their 5 seconds.
slept == sleeps - (IF pc = "w_sleep" /\ sleepLeft > 0 THEN 1 ELSE 0)

\* C24: with timeout 0 wait_for_peer_connection sends no peer query and
\* returns false; with a timeout of 1 second or more it has sent at least one
\* peer query when it returns false; and the deadline is looked at again only
\* after the poll that saw no connected peer was followed by a sleep of 5
\* seconds: a further poll, or false, comes after 5 seconds for each earlier
\* poll.
C24_NoPollAtZeroOnePollOtherwise ==
    InWait =>
        /\ timeout_secs = 0 => polls = 0 /\ pc \in {"w_check", "done"}
        /\ (timeout_secs = 0 /\ pc = "done") => result = OkBool(FALSE)
        /\ (timeout_secs >= 1 /\ pc = "done" /\ result = OkBool(FALSE)) =>
               polls >= 1 /\ sleeps = polls
        /\ elapsed >= 5 * slept
        /\ pc = "w_poll" => slept = polls - 1
        /\ pc = "w_sleep" => elapsed >= 5 * (sleeps - 1) + (5 - sleepLeft)

\* A call with timeout 0 that has returned.
C24_Witness ==
    /\ InWait
    /\ timeout_secs = 0
    /\ pc = "done"
    /\ polls = 0
    /\ elapsed = 0
    /\ result = OkBool(FALSE)

-----------------------------------------------------------------------------
(* The launcher beside the two operations that release containers: launches  *)
(* of DefaultConfig, cleanup_node on the handles they returned and           *)
(* cleanup_existing_containers, in any order.                                *)

LauncherNext ==
    \/ call_start_waku_node(DefaultConfig)
    \/ \E ok \in BOOLEAN : create_container(ok)
    \/ \E ok \in BOOLEAN : start_container(ok)
    \/ settle
    \/ \E resp \in InfoResponses : info_attempt(resp)
    \/ info_backoff
    \/ \E h \in handles : call_cleanup_node(h)
    \/ \E ok \in BOOLEAN : stop_container(ok)
    \/ \E ok \in BOOLEAN : remove_container(ok)
    \/ call_cleanup_existing_containers
    \/ \E ok \in BOOLEAN : list_containers(ok)
    \/ \E ok \in BOOLEAN : sweep_stop(ok)
    \/ \E ok \in BOOLEAN : sweep_remove(ok)
    \/ return

LauncherSpec == Init /\ [][LauncherNext]_vars

\* The container of name n is stopped or removed by this step.
Released(n) ==
    containers'[n] # containers[n] /\ containers'[n] \in {"exited", "absent"}

\* C23: start_waku_node never stops or removes a container; when it returns
\* an error after the container was created, the container is still there as
\* created or running, and the launch hands no handle to the caller; a
\* container for whose identifier the caller holds no handle is stopped or
\* removed only by cleanup_existing_containers.
C23_NoRollback ==
    /\ [][op = "start_waku_node" => \A n \in Names : ~Released(n)]_vars
    /\ []((op = "start_waku_node" /\ pc = "done" /\ result.status = "err"
               /\ trace # << >> /\ trace[1].ok)
           => /\ containers[config.name] \in {"created", "running"}
              /\ result.node = NoNode
              /\ \A i \in 1..Len(trace) :
                     trace[i].req \notin {"stop_container", "remove_container"})
    /\ [][(op = "start_waku_node" /\ pc' = "done" /\ result'.status = "err")
             => handles' = handles]_vars
    /\ [][\A n \in Names :
             (Released(n) /\ ~\E h \in handles : h.container_id = ContainerId(n))
             => op = "cleanup_existing_containers"]_vars

\* No launch has returned a handle, and cleanup_existing_containers has
\* removed the container that a failed launch left behind.
C23_Witness ==
    /\ Returned("cleanup_existing_containers")
    /\ handles = {}
    /\ Len(trace) = 3
    /\ trace[1] = Req("list_containers", TRUE)
    /\ trace[3] = Req("remove_container", TRUE)
    /\ containers[DefaultConfig.name] = "absent"

-----------------------------------------------------------------------------
(* run_basic_test of main.rs: start_waku_node, get_node_info,                *)
(* subscribe_to_topic, publish_message and cleanup_node in that order, each  *)
(* followed by ?, so the first error ends the scenario.                      *)

\* The call that follows a call that returned Ok.
FollowingStep(o) ==
    IF o = "start_waku_node" THEN "get_node_info"
    ELSE IF o = "get_node_info" THEN "subscribe_to_topic"
    ELSE IF o = "subscribe_to_topic" THEN "publish_message"
    ELSE IF o = "publish_message" THEN "cleanup_node"
    ELSE "ended"

\* The scenario takes the result of the call it made: ? returns on an error,
\* otherwise the next statement is reached.
basic_test_step ==
    /\ scenario.step \notin {"none", "ended"}
    /\ drop_locals
    /\ scenario' =
           [step |-> IF result.status = "err" THEN "ended" ELSE FollowingStep(op),
            launched |-> scenario.launched
                + (IF op = "start_waku_node" /\ result.status = "ok" THEN 1 ELSE 0),
            cleaned |-> scenario.cleaned + (IF op = "cleanup_node" THEN 1 ELSE 0)]

BasicTestInit ==
    /\ op = "idle"
    /\ pc = "idle"
    /\ containers = [n \in Names |-> "absent"]
    /\ handles = {}
    /\ config = NoConfig
    /\ node = NoNode
    /\ attempt = 0
    /\ requests = 0
    /\ fails = 0
    /\ lastResp = NoResp
    /\ result = NoResult
    /\ NoWait
    /\ networks = 0
    /\ trace = << >>
    /\ warns = 0
    /\ relay = [n \in Names |-> NoRelay]
    /\ arg = NoArg
    /\ answer = NoAnswer
    /\ todo = << >>
    /\ scenario = [NoScenario EXCEPT !.step = "start_waku_node"]

BasicTestNext ==
    \/ scenario.step = "start_waku_node" /\ call_start_waku_node(DefaultConfig)
    \/ \E ok \in BOOLEAN : create_container(ok)
    \/ \E ok \in BOOLEAN : start_container(ok)
    \/ settle
    \/ scenario.step = "get_node_info" /\ \E h \in handles : call_get_node_info(h)
    \/ \E resp \in InfoResponses : info_attempt(resp)
    \/ info_backoff
    \/ scenario.step = "subscribe_to_topic"
          /\ \E h \in handles : call_subscribe_to_topic(h, TestTopic)
    \/ \E resp \in PostResponses : subscribe_to_topic(resp)
    \/ scenario.step = "publish_message"
          /\ \E h \in handles, c \in Contents, now \in Timestamps :
                 call_publish_message(h, create_test_message(c, TestTopic, now))
    \/ \E resp \in PostResponses : publish_message(resp)
    \/ scenario.step = "cleanup_node" /\ \E h \in handles : call_cleanup_node(h)
    \/ \E ok \in BOOLEAN : stop_container(ok)
    \/ \E ok \in BOOLEAN : remove_container(ok)
    \/ basic_test_step

BasicTestSpec == BasicTestInit /\ [][BasicTestNext]_vars

\* C21: when the scenario has ended, every handle that start_waku_node
\* returned to it has been passed to cleanup_node exactly once, whichever of
\* its calls failed.
C21_EveryHandleCleanedOnce ==
    scenario.step = "ended" => scenario.cleaned = scenario.launched

====
